---- MODULE Spec2Model ----
(***************************************************************************)
(* Strange-attractor viewer: the simulation engine of src/main.js and of   *)
(* its two sibling stages src/unnamed/part_000 (RK4, scaled aizawa) and    *)
(* src/unnamed/part_001 (Lorenz only).  Each stage is a complete program;  *)
(* the variable `variant` says which one is running.                        *)
(*                                                                         *)
(* Numbers.  A JavaScript number is modelled as a fixed-point integer in   *)
(* units of 1/SCALE, with a finite range of +-MaxFinite and the three      *)
(* IEEE specials NaN, +Infinity, -Infinity as values outside that range.   *)
(* A Float32Array element keeps F32Bits significant bits of such a number. *)
(* A DOM input value is a string <<kind, n>>: <<"dec", n>> is the decimal  *)
(* text of the number n, <<"junk", 0>> is text that starts no number.      *)
(*                                                                         *)
(* The page.  The code reads `.value` of whatever element carries an id    *)
(* and validates none of it, so an input's text is the environment's     *)
(* choice: a number, "Infinity", or text that is no number.  (The sliders  *)
(* main.js and part_000 build are type=range, which a browser keeps        *)
(* numeric; part_001's page is not part of the sources.)  The page may     *)
(* also hold an input that names no coefficient (StrayKey).                *)
(***************************************************************************)
EXTENDS Integers, Sequences, FiniteSets, TLC

\* ------------------------------------------------------------------ bounds
\* maxPoints is 10000 in the sources; the model runs a smaller buffer.
maxPoints == 3
\* how many slider edits one run makes
MaxEdits == 1
\* frames run since the last reset (enough to fill the buffer twice over)
MaxFrames == 2 * maxPoints

\* the one element of a singleton set: Val({F(v) : v \in {e}}) is F(e) with e
\* evaluated once
Val(S) == CHOOSE r \in S : TRUE

\* ----------------------------------------------------------------- numbers
K == 10 * 10 * 10
SCALE == K * K
MaxFinite == K * SCALE
PosInf == MaxFinite + 1
NegInf == 0 - PosInf
NaN == MaxFinite + 2

IsFinite(a) == a >= 0 - MaxFinite /\ a <= MaxFinite
IsNumber(a) == IsFinite(a) \/ a \in {PosInf, NegInf, NaN}

\* the literal m/d, d a power of ten dividing SCALE
Lit(m, d) == m * (SCALE \div d)

Abs(a) == IF a < 0 THEN 0 - a ELSE a
Sgn(a) == IF a < 0 THEN 0 - 1 ELSE IF a > 0 THEN 1 ELSE 0

\* a result outside the finite range overflows to an infinity
Clamp(v) == IF v > MaxFinite THEN PosInf ELSE IF v < 0 - MaxFinite THEN NegInf ELSE v

NegV(a) == IF a = NaN THEN NaN ELSE 0 - a
Neg(a) == Val({NegV(u) : u \in {a}})

AddV(a, b) ==
  IF a = NaN \/ b = NaN THEN NaN
  ELSE IF a = PosInf THEN (IF b = NegInf THEN NaN ELSE PosInf)
  ELSE IF a = NegInf THEN (IF b = PosInf THEN NaN ELSE NegInf)
  ELSE IF b = PosInf \/ b = NegInf THEN b
  ELSE Clamp(a + b)
Add(a, b) == Val({AddV(u, v) : u \in {a}, v \in {b}})

Sub(a, b) == Val({AddV(u, NegV(v)) : u \in {a}, v \in {b}})

\* |a| * |b| / SCALE for finite a, b, truncated, computed in halves of K
\* so that no intermediate product leaves the machine integers
MulMag(a, b) ==
  LET a1 == a \div K
      a0 == a % K
      b1 == b \div K
      b0 == b % K
      mid == a1 * b0 + a0 * b1
  IN  IF a1 > 0 /\ b1 > (MaxFinite \div a1) + 1 THEN PosInf
      ELSE Clamp(a1 * b1 + (mid \div K) + (((mid % K) * K + a0 * b0) \div SCALE))

MulV(a, b) ==
  IF a = NaN \/ b = NaN THEN NaN
  ELSE IF ~IsFinite(a) \/ ~IsFinite(b)
       THEN (IF a = 0 \/ b = 0 THEN NaN
             ELSE IF Sgn(a) * Sgn(b) > 0 THEN PosInf ELSE NegInf)
  ELSE LET m == MulMag(Abs(a), Abs(b))
       IN  IF Sgn(a) * Sgn(b) < 0 THEN 0 - m ELSE m
Mul(a, b) == Val({MulV(u, v) : u \in {a}, v \in {b}})

\* a / n for a whole number n > 0
DivIntV(a, n) ==
  IF ~IsFinite(a) THEN a
  ELSE Sgn(a) * (Abs(a) \div n)
DivInt(a, n) == Val({DivIntV(u, n) : u \in {a}})

\* the whole number i as a number
Num(i) == i * SCALE

Pi == Lit(3141593, 1000000)
TwoPi == 2 * Pi

\* Math.PI is pi rounded to the precision of the numbers, and Math.sin is
\* the sine of the number it is given: its period is 2*pi itself, not
\* 2*Math.PI.  Here 2*pi = 6283185.307 units, so TwoPi is longer than the
\* period by TwoPiExcess thousandths of a unit.
TwoPiExcess == 1000 - 307
\* a less n periods of 2*pi, to the nearest unit
LessTurns(a, n) == (a - n * TwoPi) + ((n * TwoPiExcess + 500) \div 1000)

\* Math.sin by range reduction to [-Pi/2, Pi/2] and the Taylor polynomial
\* up to x^11; the result lies in [-1, 1] as Math.sin's does
SinTerm(t, r2, n) == DivIntV(MulV(t, r2), n)
SinPoly(r) ==
  Val({Val({Val({Val({Val({Val({r - t3 + t5 - t7 + t9 - t11 :
      t11 \in {SinTerm(t9, r2, 110)}}) :
      t9 \in {SinTerm(t7, r2, 72)}}) :
      t7 \in {SinTerm(t5, r2, 42)}}) :
      t5 \in {SinTerm(t3, r2, 20)}}) :
      t3 \in {SinTerm(r, r2, 6)}}) :
      r2 \in {MulV(r, r)}})

SinV(a) ==
  IF ~IsFinite(a) THEN NaN
  ELSE LET w == LessTurns(a, (a + Pi) \div TwoPi)
           r == IF 2 * w > Pi THEN Pi - w
                ELSE IF 2 * w < 0 - Pi THEN (0 - Pi) - w
                ELSE w
       IN  Val({IF v > SCALE THEN SCALE ELSE IF v < 0 - SCALE THEN 0 - SCALE ELSE v :
                 v \in {SinPoly(r)}})
Sin(a) == Val({SinV(u) : u \in {a}})

\* ---------------------------------------------------------- Float32Array
\* a float32 has 24 significant bits where a double has 53; the model's
\* numbers carry about 30, and its float32 half of 24
F32Bits == 24 \div 2

Log2(v) == CHOOSE p \in 0..30 : 2^p <= v /\ v < 2^(p + 1)

\* the value a Float32Array element holds after `element = a`
\* (round to nearest, ties to even)
FroundV(a) ==
  IF ~IsFinite(a) \/ Abs(a) < 2^F32Bits THEN a
  ELSE LET v == Abs(a)
           q == 2^(Log2(v) - F32Bits + 1)
           m == v \div q
           r == v % q
           up == 2 * r > q \/ (2 * r = q /\ m % 2 = 1)
       IN  Sgn(a) * ((IF up THEN m + 1 ELSE m) * q)
Fround(a) == Val({FroundV(u) : u \in {a}})

\* ------------------------------------------------------------ DOM strings
Junk == <<"junk", 0>>
\* String(n), as `input.value = n` stores it
NumberToString(n) == <<"dec", n>>
\* parseFloat: the number a decimal text denotes ("NaN" gives NaN,
\* "Infinity" gives Infinity), NaN for text that starts no number
parseFloat(str) == IF str[1] = "dec" THEN str[2] ELSE NaN

\* ------------------------------------------------------------ the stages
Variants == {"main.js", "part_000", "part_001"}
Coloured(v) == v # "part_001"

\* the six attractor types of the <select> (main.js, part_000)
AttractorTypes == {"lorenz", "aizawa", "rossler", "chen", "thomas", "dadras"}
\* a type that is no option of the <select>
UnknownType == "henon"

\* let params = {...}
params0 ==
  [lorenz  |-> [sigma |-> Lit(10, 1), rho |-> Lit(28, 1), beta |-> Lit(2666, 1000),
                dt |-> Lit(1, 100)],
   aizawa  |-> [a |-> Lit(95, 100), b |-> Lit(7, 10), c |-> Lit(6, 10),
                d |-> Lit(35, 10), e |-> Lit(25, 100), f |-> Lit(1, 10),
                dt |-> Lit(1, 100)],
   rossler |-> [a |-> Lit(2, 10), b |-> Lit(2, 10), c |-> Lit(57, 10),
                dt |-> Lit(1, 100)],
   chen    |-> [a |-> Lit(35, 1), b |-> Lit(3, 1), c |-> Lit(28, 1),
                dt |-> Lit(1, 1000)],
   thomas  |-> [b |-> Lit(208186, 1000000), dt |-> Lit(5, 100)],
   dadras  |-> [a |-> Lit(3, 1), b |-> Lit(27, 10), c |-> Lit(17, 10),
                d |-> Lit(2, 1), e |-> Lit(9, 1), dt |-> Lit(1, 100)]]

\* let sigma = 10; let rho = 28; let beta = 2.666; let dt = 0.01;
\* part_001's four globals, kept as the one table params.lorenz
lorenzDefaults ==
  [sigma |-> Lit(10, 1), rho |-> Lit(28, 1), beta |-> Lit(2666, 1000),
   dt |-> Lit(1, 100)]

\* a slip: chen's dt is copied from its neighbours
InitialParamsChenDt(v) ==
  IF v = "part_001" THEN [m \in {"lorenz"} |-> lorenzDefaults]
  ELSE [params0 EXCEPT !.chen.dt = Lit(1, 100)]

InitialParams(v) ==
  IF v = "part_001" THEN [m \in {"lorenz"} |-> lorenzDefaults] ELSE params0

\* an <input> of the page whose id names no coefficient (`lorenz-gamma`, ...);
\* no stage creates or reads one
StrayKey == "gamma"

\* the value="..." attributes of the sliders createUI builds: each slider
\* starts at its coefficient's default (part_001's page is taken to do the same)
InitialInputs(v) ==
  LET p == InitialParams(v)
  IN  [m \in DOMAIN p |->
         [k \in (DOMAIN p[m]) \cup {StrayKey} |->
            IF k = StrayKey THEN NumberToString(0) ELSE NumberToString(p[m][k])]]

\* new THREE.BufferGeometry(): no stage calls setDrawRange while it loads, so
\* the geometry starts with the library's draw range, a count of Infinity
NoDrawRange == PosInf

\* new Float32Array(maxPoints * 3)
Float32Array(n) == [i \in 0..(n - 1) |-> 0]

\* typedArray[i] = v: the element takes the float32 of v; a store past the
\* end of a typed array is ignored
SetElemV(arr, i, v) == IF i \in DOMAIN arr THEN [arr EXCEPT ![i] = FroundV(v)] ELSE arr
SetElem(arr, i, v) == Val({SetElemV(a, i, u) : a \in {arr}, u \in {v}})

\* a slip: the fill is left out
FillNothing(arr, v) == arr

\* typedArray.fill(v)
Fill(arr, v) == [i \in DOMAIN arr |-> Fround(v)]

\* ------------------------------------------------- the UI and the parameters
\* updateUIFromParams: shows the current type's sliders, sets the <select>,
\* and writes each coefficient of the current type into its slider
updateUIFromParams(s) ==
  LET cur == s.currentAttractor
      s1 == [s EXCEPT !.shown = IF cur \in DOMAIN s.inputs THEN cur ELSE "",
                      !.selected = IF cur \in AttractorTypes THEN cur ELSE ""]
  IN  IF cur \in DOMAIN s.params
      THEN [s1 EXCEPT !.inputs[cur] =
              [k \in DOMAIN s.inputs[cur] |->
                 IF k \in DOMAIN s.params[cur]
                 THEN NumberToString(s.params[cur][k])
                 ELSE s.inputs[cur][k]]]
      ELSE s1

\* a slip: the inputs are looked up by coefficient name alone, so one slider
\* feeds the coefficient of that name in every table
updateParametersFromUIShared(s) ==
  LET cur == s.currentAttractor
  IN  IF cur \in DOMAIN s.params
      THEN [s EXCEPT !.params =
              [m \in DOMAIN s.params |->
                 [k \in DOMAIN s.params[m] |->
                    IF k \in DOMAIN s.params[cur] /\ k \in DOMAIN s.inputs[cur]
                    THEN parseFloat(s.inputs[cur][k])
                    ELSE s.params[m][k]]]]
      ELSE s

\* a slip: the loop runs over the inputs of the group instead of over the
\* coefficients, so every input becomes a coefficient
updateParametersFromUIInputs(s) ==
  LET cur == s.currentAttractor
  IN  IF cur \in DOMAIN s.params
      THEN [s EXCEPT !.params[cur] =
              [k \in DOMAIN s.inputs[cur] |-> parseFloat(s.inputs[cur][k])]]
      ELSE s

\* updateParametersFromUI (part_000 has the same text): every coefficient of
\* the current type takes parseFloat of its slider's value
updateParametersFromUI(s) ==
  LET cur == s.currentAttractor
  IN  IF cur \in DOMAIN s.params
      THEN [s EXCEPT !.params[cur] =
              [k \in DOMAIN s.params[cur] |->
                 IF k \in DOMAIN s.inputs[cur]
                 THEN parseFloat(s.inputs[cur][k])
                 ELSE s.params[cur][k]]]
      ELSE s

\* part_001 updateParameters: sigma, rho, beta, dt from the four inputs
updateParameters(s) ==
  [s EXCEPT !.params["lorenz"] =
     [k \in DOMAIN s.params["lorenz"] |-> parseFloat(s.inputs["lorenz"][k])]]

\* ------------------------------------------------------------------- reset
\* a slip: x += 0.1 for x = 0.1
resetAttractorMainAdds(s) ==
  updateUIFromParams(
    [s EXCEPT !.x = Add(s.x, Lit(1, 10)), !.y = 0, !.z = 0,
              !.pointCount = 0,
              !.positions = Fill(s.positions, 0),
              !.colors = Fill(s.colors, 0),
              !.drawRange = 0])

\* a slip: the two fill(0) calls are left out, so the points of the last run
\* stay in the buffers
resetAttractorMainKeepsBuffers(s) ==
  updateUIFromParams(
    [s EXCEPT !.x = Lit(1, 10), !.y = 0, !.z = 0,
              !.pointCount = 0,
              !.drawRange = 0])

\* main.js resetAttractor
resetAttractorMain(s) ==
  updateUIFromParams(
    [s EXCEPT !.x = Lit(1, 10), !.y = 0, !.z = 0,
              !.pointCount = 0,
              !.positions = Fill(s.positions, 0),
              !.colors = Fill(s.colors, 0),
              !.drawRange = 0])

\* const k = 10, the aizawa scale of part_000
kAizawa == 10

\* a slip: pointCount = 0 is left out, so the points of the last run stay live
resetAttractorP0KeepsCount(s) ==
  LET k == Num(kAizawa)
      aiz == s.currentAttractor = "aizawa"
  IN  updateUIFromParams(
        [s EXCEPT !.x = IF aiz THEN Mul(Lit(1, 10), k) ELSE Lit(1, 10),
                  !.y = IF aiz THEN Mul(0, k) ELSE 0,
                  !.z = IF aiz THEN Mul(0, k) ELSE 0,
                  !.positions = Fill(s.positions, 0),
                  !.colors = Fill(s.colors, 0),
                  !.drawRange = 0])

\* part_000 resetAttractor: the aizawa start is scaled by k
resetAttractorP0(s) ==
  LET k == Num(kAizawa)
      aiz == s.currentAttractor = "aizawa"
  IN  updateUIFromParams(
        [s EXCEPT !.x = IF aiz THEN Mul(Lit(1, 10), k) ELSE Lit(1, 10),
                  !.y = IF aiz THEN Mul(0, k) ELSE 0,
                  !.z = IF aiz THEN Mul(0, k) ELSE 0,
                  !.pointCount = 0,
                  !.positions = Fill(s.positions, 0),
                  !.colors = Fill(s.colors, 0),
                  !.drawRange = 0])

\* a slip: pointCount = 0 is left out
resetAttractorP1KeepsCount(s) ==
  [s EXCEPT !.params["lorenz"] = lorenzDefaults,
            !.x = Lit(1, 10), !.y = 0, !.z = 0,
            !.positions = Fill(s.positions, 0),
            !.drawRange = 0,
            !.inputs["lorenz"] =
               [k \in DOMAIN s.inputs["lorenz"] |->
                  IF k \in DOMAIN lorenzDefaults
                  THEN NumberToString(lorenzDefaults[k])
                  ELSE s.inputs["lorenz"][k]]]

\* part_001 resetAttractor: the four parameters go back to their defaults,
\* and the four inputs are set from them
resetAttractorP1(s) ==
  [s EXCEPT !.params["lorenz"] = lorenzDefaults,
            !.x = Lit(1, 10), !.y = 0, !.z = 0,
            !.pointCount = 0,
            !.positions = Fill(s.positions, 0),
            !.drawRange = 0,
            !.inputs["lorenz"] =
               [k \in DOMAIN s.inputs["lorenz"] |->
                  IF k \in DOMAIN lorenzDefaults
                  THEN NumberToString(lorenzDefaults[k])
                  ELSE s.inputs["lorenz"][k]]]

resetAttractor(s) ==
  CASE s.variant = "main.js" -> resetAttractorMain(s)
    [] s.variant = "part_000" -> resetAttractorP0(s)
    [] s.variant = "part_001" -> resetAttractorP1(s)

\* changeAttractor (main.js and part_000): currentAttractor = type; resetAttractor()
changeAttractor(s, type) == resetAttractor([s EXCEPT !.currentAttractor = type])

\* ------------------------------------------------- main.js computeNextPoint
\* the increments <<dx, dy, dz>> of one switch case, each already times dt
lorenzEuler(x, y, z, p) ==
  <<Mul(Mul(p.sigma, Sub(y, x)), p.dt),
    Mul(Sub(Mul(x, Sub(p.rho, z)), y), p.dt),
    Mul(Sub(Mul(x, y), Mul(p.beta, z)), p.dt)>>

aizawaEuler(x, y, z, p) ==
  LET dx == Sub(Mul(Sub(z, p.b), x), Mul(p.d, y))
      dy == Add(Mul(p.d, x), Mul(Sub(z, p.b), y))
      dz == Add(Sub(Sub(Add(p.c, Mul(p.a, z)),
                        DivInt(Mul(Mul(z, z), z), 3)),
                    Mul(Add(Mul(x, x), Mul(y, y)), Add(Num(1), Mul(p.e, z)))),
                Mul(Mul(Mul(Mul(p.f, z), x), x), x))
  IN  <<Mul(dx, p.dt), Mul(dy, p.dt), Mul(dz, p.dt)>>

rosslerEuler(x, y, z, p) ==
  <<Mul(Sub(Neg(y), z), p.dt),
    Mul(Add(x, Mul(p.a, y)), p.dt),
    Mul(Add(p.b, Mul(z, Sub(x, p.c))), p.dt)>>

chenEuler(x, y, z, p) ==
  <<Mul(Mul(p.a, Sub(y, x)), p.dt),
    Mul(Add(Sub(Mul(Sub(p.c, p.a), x), Mul(x, z)), Mul(p.c, y)), p.dt),
    Mul(Sub(Mul(x, y), Mul(p.b, z)), p.dt)>>

thomasEuler(x, y, z, p) ==
  <<Mul(Sub(Sin(y), Mul(p.b, x)), p.dt),
    Mul(Sub(Sin(z), Mul(p.b, y)), p.dt),
    Mul(Sub(Sin(x), Mul(p.b, z)), p.dt)>>

dadrasEuler(x, y, z, p) ==
  <<Mul(Add(Sub(y, Mul(p.a, x)), Mul(Mul(p.b, y), z)), p.dt),
    Mul(Add(Sub(Mul(p.c, y), Mul(x, z)), z), p.dt),
    Mul(Sub(Mul(Mul(p.d, x), y), Mul(p.e, z)), p.dt)>>

\* x += dx; y += dy; z += dz
AdvanceV(s, d) == [s EXCEPT !.x = Add(s.x, d[1]), !.y = Add(s.y, d[2]), !.z = Add(s.z, d[3])]
Advance(s, d) == Val({AdvanceV(s, e) : e \in {d}})

\* main.js computeNextPoint: one explicit Euler step of the current type;
\* a type that matches no case leaves dx = dy = dz = 0
computeNextPointMain(s) ==
  LET t == s.currentAttractor
      d == CASE t = "lorenz"  -> lorenzEuler(s.x, s.y, s.z, s.params.lorenz)
             [] t = "aizawa"  -> aizawaEuler(s.x, s.y, s.z, s.params.aizawa)
             [] t = "rossler" -> rosslerEuler(s.x, s.y, s.z, s.params.rossler)
             [] t = "chen"    -> chenEuler(s.x, s.y, s.z, s.params.chen)
             [] t = "thomas"  -> thomasEuler(s.x, s.y, s.z, s.params.thomas)
             [] t = "dadras"  -> dadrasEuler(s.x, s.y, s.z, s.params.dadras)
             [] OTHER         -> <<0, 0, 0>>
  IN  Advance(s, d)

\* part_001 computeLorenz
computeLorenz(s) == Advance(s, lorenzEuler(s.x, s.y, s.z, s.params.lorenz))

\* ------------------------------------------------ part_000 computeNextPoint
lorenzDerivatives(x, y, z, p) ==
  <<Mul(p.sigma, Sub(y, x)),
    Sub(Mul(x, Sub(p.rho, z)), y),
    Sub(Mul(x, y), Mul(p.beta, z))>>

aizawaDerivatives(x, y, z, p, k) ==
  LET zk == DivInt(z, k)
  IN  <<Sub(Mul(Sub(zk, p.b), x), Mul(p.d, y)),
        Add(Mul(p.d, x), Mul(Sub(zk, p.b), y)),
        Add(Sub(Sub(Add(Mul(Num(k), p.c), Mul(p.a, z)),
                    DivInt(Mul(Mul(z, z), z), 3 * k * k)),
                Mul(DivInt(Add(Mul(x, x), Mul(y, y)), k),
                    Add(Num(1), DivInt(Mul(p.e, z), k)))),
            DivInt(Mul(Mul(Mul(Mul(p.f, z), x), x), x), k * k * k))>>

rosslerDerivatives(x, y, z, p) ==
  <<Sub(Neg(y), z),
    Add(x, Mul(p.a, y)),
    Add(p.b, Mul(z, Sub(x, p.c)))>>

chenDerivatives(x, y, z, p) ==
  <<Mul(p.a, Sub(y, x)),
    Add(Sub(Mul(Sub(p.c, p.a), x), Mul(x, z)), Mul(p.c, y)),
    Sub(Mul(x, y), Mul(p.b, z))>>

thomasDerivatives(x, y, z, p) ==
  <<Sub(Sin(y), Mul(p.b, x)),
    Sub(Sin(z), Mul(p.b, y)),
    Sub(Sin(x), Mul(p.b, z))>>

dadrasDerivatives(x, y, z, p) ==
  <<Add(Sub(y, Mul(p.a, x)), Mul(Mul(p.b, y), z)),
    Add(Sub(Mul(p.c, y), Mul(x, z)), z),
    Sub(Mul(Mul(p.d, x), y), Mul(p.e, z))>>

\* the derivative function one switch case of part_000 calls
DerivativesV(t, x, y, z, p) ==
  CASE t = "lorenz"  -> lorenzDerivatives(x, y, z, p)
    [] t = "aizawa"  -> aizawaDerivatives(x, y, z, p, kAizawa)
    [] t = "rossler" -> rosslerDerivatives(x, y, z, p)
    [] t = "chen"    -> chenDerivatives(x, y, z, p)
    [] t = "thomas"  -> thomasDerivatives(x, y, z, p)
    [] t = "dadras"  -> dadrasDerivatives(x, y, z, p)
Derivatives(t, x, y, z, p) ==
  Val({DerivativesV(t, a, b, c, p) : a \in {x}, b \in {y}, c \in {z}})

\* k *= dt on the three components
TimesDt(d, dt) == <<Mul(d[1], dt), Mul(d[2], dt), Mul(d[3], dt)>>

\* the body every case of part_000's switch repeats: k1..k4 and
\* (k1 + 2*k2 + 2*k3 + k4) / 6
RK4(t, x, y, z, p) ==
  LET dt == p.dt
      D(a, b, c) == Val({TimesDt(d, dt) : d \in {Derivatives(t, a, b, c, p)}})
      Half(k, i) == DivInt(k[i], 2)
      W(k1, k2, k3, k4, i) ==
        DivInt(Add(Add(Add(k1[i], Mul(Num(2), k2[i])), Mul(Num(2), k3[i])), k4[i]), 6)
  IN  Val({Val({Val({Val({<<W(k1, k2, k3, k4, 1), W(k1, k2, k3, k4, 2), W(k1, k2, k3, k4, 3)>> :
        k4 \in {D(Add(x, k3[1]), Add(y, k3[2]), Add(z, k3[3]))}}) :
        k3 \in {D(Add(x, Half(k2, 1)), Add(y, Half(k2, 2)), Add(z, Half(k2, 3)))}}) :
        k2 \in {D(Add(x, Half(k1, 1)), Add(y, Half(k1, 2)), Add(z, Half(k1, 3)))}}) :
        k1 \in {D(x, y, z)}})

\* part_000 computeNextPoint
computeNextPointP0(s) ==
  LET t == s.currentAttractor
  IN  Advance(s, IF t \in AttractorTypes
                 THEN RK4(t, s.x, s.y, s.z, s.params[t])
                 ELSE <<0, 0, 0>>)

computeNextPoint(s) ==
  CASE s.variant = "main.js" -> computeNextPointMain(s)
    [] s.variant = "part_000" -> computeNextPointP0(s)
    [] s.variant = "part_001" -> computeLorenz(s)

\* ------------------------------------------------------------------ colours
\* getColor(i): phi = i / maxPoints * Math.PI * 2, three sines a third of a
\* turn apart, each scaled into [0, 1]
getColorV(phi) ==
  LET third == DivInt(Mul(Num(2), Pi), 3)
      twoThirds == DivInt(Mul(Num(4), Pi), 3)
      half == Lit(5, 10)
  IN  [r |-> Add(Mul(Sin(phi), half), half),
       g |-> Add(Mul(Sin(Add(phi, third)), half), half),
       b |-> Add(Mul(Sin(Add(phi, twoThirds)), half), half)]
\* a slip: the cycle is spread over maxPoints - 1 steps, so that the last slot
\* gets the hue of the first
getColorShortCycle(i) ==
  Val({getColorV(phi) : phi \in {Mul(Mul(DivInt(Num(i), maxPoints - 1), Pi), Num(2))}})

getColor(i) == Val({getColorV(phi) : phi \in {Mul(Mul(DivInt(Num(i), maxPoints), Pi), Num(2))}})

\* ---------------------------------------------------------------- the frame
\* a slip: the first two coordinates change places
StorePointSwapped(arr, slot, a, b, c) ==
  SetElem(SetElem(SetElem(arr, slot * 3, b), slot * 3 + 1, a), slot * 3 + 2, c)

\* positions[slot * 3] = x; positions[slot * 3 + 1] = y; positions[slot * 3 + 2] = z
StorePoint(arr, slot, a, b, c) ==
  SetElem(SetElem(SetElem(arr, slot * 3, a), slot * 3 + 1, b), slot * 3 + 2, c)

\* a slip: the same copies made from the last slot down to the first, which
\* smears the newest point over the buffer
RECURSIVE ShiftLoopDown(_, _)
ShiftLoopDown(arr, i) ==
  IF i < maxPoints - 1
  THEN LET j == maxPoints - 2 - i
       IN  Val({ShiftLoopDown(a, i + 1) :
                  a \in {StorePoint(arr, j, arr[(j + 1) * 3], arr[(j + 1) * 3 + 1],
                                    arr[(j + 1) * 3 + 2])}})
  ELSE arr

\* for (let i = 0; i < maxPoints - 1; i++) arr[i*3 .. i*3+2] = arr[(i+1)*3 .. (i+1)*3+2]
RECURSIVE ShiftLoop(_, _)
ShiftLoop(arr, i) ==
  IF i < maxPoints - 1
  THEN Val({ShiftLoop(a, i + 1) :
              a \in {StorePoint(arr, i, arr[(i + 1) * 3], arr[(i + 1) * 3 + 1],
                                arr[(i + 1) * 3 + 2])}})
  ELSE arr

\* a slip: <= for <
HasRoomOffByOne(n) == n <= maxPoints

\* if (pointCount < maxPoints)
HasRoom(n) == n < maxPoints

\* a slip: the colour is taken for the slot after the one the point occupies
AddPointNextHue(s) ==
  LET n == s.pointCount
      last == maxPoints - 1
      Paint(arr, slot) ==
        Val({StorePoint(arr, slot, c.r, c.g, c.b) : c \in {getColor(slot + 1)}})
  IN  IF HasRoom(n)
      THEN [s EXCEPT !.positions = StorePoint(s.positions, n, s.x, s.y, s.z),
                     !.colors = IF Coloured(s.variant)
                                THEN Paint(s.colors, n)
                                ELSE s.colors,
                     !.pointCount = n + 1,
                     !.drawRange = n + 1]
      ELSE [s EXCEPT !.positions = StorePoint(ShiftLoop(s.positions, 0), last,
                                              s.x, s.y, s.z),
                     !.colors = IF Coloured(s.variant)
                                THEN Paint(ShiftLoop(s.colors, 0), last)
                                ELSE s.colors,
                     !.drawRange = n]

\* a slip: the colour buffer is left out of the shift, so a colour stays with
\* its slot while the points move through
AddPointColorsStay(s) ==
  LET n == s.pointCount
      last == maxPoints - 1
      Paint(arr, slot) == Val({StorePoint(arr, slot, c.r, c.g, c.b) : c \in {getColor(slot)}})
  IN  IF HasRoom(n)
      THEN [s EXCEPT !.positions = StorePoint(s.positions, n, s.x, s.y, s.z),
                     !.colors = IF Coloured(s.variant)
                                THEN Paint(s.colors, n)
                                ELSE s.colors,
                     !.pointCount = n + 1,
                     !.drawRange = n + 1]
      ELSE [s EXCEPT !.positions = StorePoint(ShiftLoop(s.positions, 0), last,
                                              s.x, s.y, s.z),
                     !.colors = IF Coloured(s.variant)
                                THEN Paint(s.colors, last)
                                ELSE s.colors,
                     !.drawRange = n]

\* the buffer part of animate: the new point (x, y, z) goes to slot pointCount
\* while there is room, and to the last slot after a shift when there is none;
\* the colour arrays follow in the two coloured stages; then setDrawRange
AddPoint(s) ==
  LET n == s.pointCount
      last == maxPoints - 1
      Paint(arr, slot) == Val({StorePoint(arr, slot, c.r, c.g, c.b) : c \in {getColor(slot)}})
  IN  IF HasRoom(n)
      THEN [s EXCEPT !.positions = StorePoint(s.positions, n, s.x, s.y, s.z),
                     !.colors = IF Coloured(s.variant)
                                THEN Paint(s.colors, n)
                                ELSE s.colors,
                     !.pointCount = n + 1,
                     !.drawRange = n + 1]
      ELSE [s EXCEPT !.positions = StorePoint(ShiftLoop(s.positions, 0), last,
                                              s.x, s.y, s.z),
                     !.colors = IF Coloured(s.variant)
                                THEN Paint(ShiftLoop(s.colors, 0), last)
                                ELSE s.colors,
                     !.drawRange = n]

\* a slip: the point is put into the buffer before the next one is computed,
\* so the buffer runs one point behind the state
animateAppendFirst(s) ==
  IF s.variant = "part_001"
  THEN Val({computeLorenz(c) : c \in {AddPoint(u) : u \in {updateParameters(s)}}})
  ELSE Val({computeNextPoint(c) : c \in {AddPoint(u) : u \in {updateParametersFromUI(s)}}})

\* a slip: the next point is computed before the parameters are read from
\* the UI, so an edit reaches the integrator one frame late
animateStaleParams(s) ==
  IF s.variant = "part_001"
  THEN Val({AddPoint(c) : c \in {updateParameters(u) : u \in {computeLorenz(s)}}})
  ELSE Val({AddPoint(c) : c \in {updateParametersFromUI(u) : u \in {computeNextPoint(s)}}})

\* animate: parameters from the UI, the next point, the buffer
animate(s) ==
  IF s.variant = "part_001"
  THEN Val({AddPoint(c) : c \in {computeLorenz(u) : u \in {updateParameters(s)}}})
  ELSE Val({AddPoint(c) : c \in {computeNextPoint(u) : u \in {updateParametersFromUI(s)}}})

\* ------------------------------------------------------------------- state
VARIABLES
  variant,           \* which stage runs
  x, y, z,           \* current point coordinates
  params,            \* the coefficient tables
  currentAttractor,  \* current attractor type
  pointCount,        \* live points
  positions, colors, \* the two Float32Arrays
  drawRange,         \* the count of the geometry's draw range (start is 0)
  inputs,            \* the value of every slider, per type
  shown, selected,   \* the parameter group on display, the <select> value
  op, arg,           \* history: the last callback and its argument
  resets,            \* history: reset clicks in a row, up to two
  steps,             \* history: frames since the last reset
  hist,              \* history: the points computed since the last reset
  edits              \* history: slider edits made so far

prog == <<variant, x, y, z, params, currentAttractor, pointCount, positions, colors,
          drawRange, inputs, shown, selected>>
vars == <<prog, op, arg, resets, steps, hist, edits>>

\* the program state as one record, and its assignment
Cur ==
  [variant |-> variant, x |-> x, y |-> y, z |-> z, params |-> params,
   currentAttractor |-> currentAttractor, pointCount |-> pointCount,
   positions |-> positions, colors |-> colors, drawRange |-> drawRange,
   inputs |-> inputs, shown |-> shown, selected |-> selected]

Becomes(s) ==
  /\ variant' = s.variant
  /\ x' = s.x /\ y' = s.y /\ z' = s.z
  /\ params' = s.params
  /\ currentAttractor' = s.currentAttractor
  /\ pointCount' = s.pointCount
  /\ positions' = s.positions
  /\ colors' = s.colors
  /\ drawRange' = s.drawRange
  /\ inputs' = s.inputs
  /\ shown' = s.shown
  /\ selected' = s.selected

\* the state the top-level statements of a stage leave, before the first frame
Init ==
  /\ variant \in Variants
  /\ x = Lit(1, 10) /\ y = 0 /\ z = 0
  /\ params = InitialParams(variant)
  /\ currentAttractor = "lorenz"
  /\ pointCount = 0
  /\ positions = Float32Array(maxPoints * 3)
  /\ colors = IF Coloured(variant) THEN Float32Array(maxPoints * 3) ELSE Float32Array(0)
  /\ drawRange = NoDrawRange
  /\ inputs = InitialInputs(variant)
  /\ shown = "lorenz"
  /\ selected = "lorenz"
  /\ op = "init" /\ arg = "" /\ resets = 0
  /\ steps = 0
  /\ hist = <<>>
  /\ edits = 0

\* ----------------------------------------------------------------- actions
\* the edits a run may make to the inputs of type t, as <<input, text>>:
\* one coefficient of every type gets another number; the lorenz inputs also
\* get text that is no number, "Infinity" as step size, and a number in the
\* stray input
Edits(t) ==
  IF t = "lorenz"
  THEN {<<"rho", NumberToString(Lit(5, 10))>>, <<"rho", Junk>>,
        <<"dt", NumberToString(PosInf)>>, <<StrayKey, NumberToString(Lit(5, 10))>>}
  ELSE {<<"b", NumberToString(Lit(5, 10))>>}

\* a requestAnimationFrame callback
Frame ==
  /\ steps < MaxFrames
  /\ \E s \in {animate(Cur)} :
       /\ Becomes(s)
       /\ hist' = Append(hist, <<s.x, s.y, s.z>>)
  /\ steps' = steps + 1
  /\ op' = "animate" /\ arg' = "" /\ resets' = 0
  /\ UNCHANGED edits

\* a click on the reset button
ClickReset ==
  /\ \E s \in {resetAttractor(Cur)} : Becomes(s)
  /\ steps' = 0 /\ hist' = <<>>
  /\ op' = "reset" /\ arg' = "" /\ resets' = IF resets < 2 THEN resets + 1 ELSE 2
  /\ UNCHANGED edits

\* a change event of the <select> (main.js, part_000)
ChangeType ==
  /\ variant # "part_001"
  /\ \E type \in AttractorTypes \cup {UnknownType} :
       /\ \E s \in {changeAttractor(Cur, type)} : Becomes(s)
       /\ arg' = type
  /\ steps' = 0 /\ hist' = <<>>
  /\ op' = "change" /\ resets' = 0
  /\ UNCHANGED edits

\* the user moves a slider of the group on display
EditInput ==
  /\ edits < MaxEdits
  /\ shown \in DOMAIN inputs
  /\ \E e \in Edits(shown) :
       /\ inputs' = [inputs EXCEPT ![shown][e[1]] = e[2]]
       /\ arg' = e[1]
  /\ edits' = edits + 1
  /\ op' = "edit" /\ resets' = 0
  /\ UNCHANGED <<variant, x, y, z, params, currentAttractor, pointCount, positions,
                 colors, drawRange, shown, selected, steps, hist>>

Next == Frame \/ ClickReset \/ ChangeType \/ EditInput

Spec == Init /\ [][Next]_vars

\* ------------------------------------------- the rate of change, on its own
\* the coordinates and the second coefficient table the rate is evaluated on
Coordinates == {Lit(1, 10), Num(2), 0 - Lit(15, 10)}
RaisedParams(v) ==
  [m \in DOMAIN InitialParams(v) |->
     [k \in DOMAIN InitialParams(v)[m] |-> Add(InitialParams(v)[m][k], Lit(5, 10))]]

\* what one switch case of main.js evaluates for dx, dy, dz
EulerCase(t, a, b, c, p) ==
  CASE t = "lorenz"  -> lorenzEuler(a, b, c, p)
    [] t = "aizawa"  -> aizawaEuler(a, b, c, p)
    [] t = "rossler" -> rosslerEuler(a, b, c, p)
    [] t = "chen"    -> chenEuler(a, b, c, p)
    [] t = "thomas"  -> thomasEuler(a, b, c, p)
    [] t = "dadras"  -> dadrasEuler(a, b, c, p)

\* the <<dx, dy, dz>> a stage evaluates for the active type at (x, y, z):
\* part_000 calls the type's derivative function; main.js and part_001
\* evaluate dx, dy, dz in the integrator, in one expression with dt
EvaluatedRate(s) ==
  LET t == s.currentAttractor
  IN  IF s.variant = "part_000"
      THEN Derivatives(t, s.x, s.y, s.z, s.params[t])
      ELSE EulerCase(t, s.x, s.y, s.z, s.params[t])

\* any point, any type of the stage, either coefficient table
InitRate ==
  /\ variant \in Variants
  /\ x \in Coordinates /\ y \in Coordinates /\ z \in Coordinates
  /\ params \in {InitialParams(variant), RaisedParams(variant)}
  /\ currentAttractor \in DOMAIN params
  /\ pointCount = 0
  /\ positions = Float32Array(maxPoints * 3)
  /\ colors = IF Coloured(variant) THEN Float32Array(maxPoints * 3) ELSE Float32Array(0)
  /\ drawRange = NoDrawRange
  /\ inputs = InitialInputs(variant)
  /\ shown = currentAttractor
  /\ selected = currentAttractor
  /\ op = "init" /\ arg = "" /\ resets = 0
  /\ steps = 0
  /\ hist = <<>>
  /\ edits = 0

\* the evaluation of dx, dy, dz: it assigns to no variable of the program;
\* hist takes the value
EvaluateRate ==
  /\ op = "init"
  /\ hist' = <<EvaluatedRate(Cur)>>
  /\ op' = "rate"
  /\ UNCHANGED <<prog, arg, resets, steps, edits>>

NextRate == EvaluateRate

SpecRate == InitRate /\ [][NextRate]_vars

\* ---------------------------------------------------- getColor, on its own
\* the largest index getColor is called with: ten times round the cycle
MaxSlot == 10 * maxPoints

\* a coloured stage after load, and any index as the argument of the call
InitColor ==
  /\ variant \in {v \in Variants : Coloured(v)}
  /\ x = Lit(1, 10) /\ y = 0 /\ z = 0
  /\ params = InitialParams(variant)
  /\ currentAttractor = "lorenz"
  /\ pointCount = 0
  /\ positions = Float32Array(maxPoints * 3)
  /\ colors = Float32Array(maxPoints * 3)
  /\ drawRange = NoDrawRange
  /\ inputs = InitialInputs(variant)
  /\ shown = "lorenz"
  /\ selected = "lorenz"
  /\ op = "init" /\ arg \in 0..MaxSlot /\ resets = 0
  /\ steps = 0
  /\ hist = <<>>
  /\ edits = 0

\* getColor(i) and getColor(i + maxPoints): the function reads i and maxPoints
\* and assigns to nothing; hist takes the two values
EvaluateColor ==
  /\ op = "init"
  /\ hist' = <<getColor(arg), getColor(arg + maxPoints)>>
  /\ op' = "getColor"
  /\ UNCHANGED <<prog, arg, resets, steps, edits>>

NextColor == EvaluateColor

SpecColor == InitColor /\ [][NextColor]_vars

\* ------------------------------------------------------------------ claims
Min(a, b) == IF a < b THEN a ELSE b
\* the point in slot i of the position buffer
SlotPoint(i) == <<positions[i * 3], positions[i * 3 + 1], positions[i * 3 + 2]>>
\* the point that belongs in live slot i: the i-th of the last pointCount
\* points computed since the reset
Recent(i) == hist[Len(hist) - pointCount + i + 1]
F32Point(pt) == <<Fround(pt[1]), Fround(pt[2]), Fround(pt[3])>>
AllZero(arr) == \A i \in DOMAIN arr : arr[i] = 0
AtStart == x = Lit(1, 10) /\ y = 0 /\ z = 0

\* C1: the live count stays within 0..maxPoints after any sequence of frames,
\* resets and type changes, and once maxPoints or more frames have run since
\* the last reset it equals maxPoints and stays there until the next reset.
C1_BufferBound ==
  /\ 0 <= pointCount /\ pointCount <= maxPoints
  /\ steps >= maxPoints => pointCount = maxPoints

\* the buffer is full and frames have gone on after that
C1_Witness == steps > maxPoints /\ pointCount = maxPoints

\* C2 as stated: the live slots hold, oldest first, exactly the last
\* min(steps, maxPoints) points the frames computed since the last reset.
C2_FifoExact ==
  /\ pointCount = Min(steps, maxPoints)
  /\ \A i \in 0..(pointCount - 1) : SlotPoint(i) = Recent(i)

\* C2 amended: the live slots hold, oldest first, the float32 values of the
\* last min(steps, maxPoints) points computed since the last reset, with no
\* gap, duplicate or reordering; so a frame on a full buffer drops slot 0,
\* moves every other point down one slot and puts the new point last.
C2_FifoFloat32 ==
  /\ Len(hist) = steps
  /\ pointCount = Min(steps, maxPoints)
  /\ \A i \in 0..(pointCount - 1) : SlotPoint(i) = F32Point(Recent(i))

\* the full buffer has been shifted at least twice, and some stored
\* coordinate differs from the computed one
C2_Witness ==
  /\ steps >= maxPoints + 2
  /\ \E i \in 0..(pointCount - 1) : SlotPoint(i) # Recent(i)

\* C3: after a reset (on its own or as part of a type change) the point is
\* (0.1, 0, 0) whichever type is active, the live count is 0 and both
\* buffers are all zero.
C3_ResetCanonical ==
  op \in {"reset", "change"} =>
    /\ AtStart
    /\ pointCount = 0
    /\ AllZero(positions) /\ AllZero(colors)

\* C4: a reset or a type change leaves every coefficient of every table as
\* it was.
C4_ResetKeepsParams == [][op' \in {"reset", "change"} => params' = params]_vars

\* C5: no step changes the table of a type other than the active one: an
\* edit applied while type A is active changes A's table only, whatever
\* type changes and frames come in between.
C5_ModelIsolation ==
  [][\A m \in DOMAIN params : m # currentAttractor => params'[m] = params[m]]_vars

\* an edited table lives on under another active type, frames included
C5_Witness ==
  /\ steps > 0
  /\ \E m \in DOMAIN params :
       m # currentAttractor /\ params[m] # InitialParams(variant)[m]

\* C6: a type change to an id outside the six types changes nothing: the
\* active type, the point, the live count and the buffers stay as they were.
C6_UnknownTypeRejected ==
  [][(op' = "change" /\ arg' \notin AttractorTypes) =>
       UNCHANGED <<currentAttractor, x, y, z, pointCount, positions, colors>>]_vars

\* C7: a parameter write whose parsed value is no finite number is
\* rejected, so every stored coefficient is a finite number at all times.
C7_ParamsFinite ==
  \A m \in DOMAIN params : \A k \in DOMAIN params[m] : IsFinite(params[m][k])

\* C8: every table has exactly the coefficient names of its default table
\* at all times; an input under any other name never becomes a coefficient.
C8_ParamNamesFixed ==
  /\ DOMAIN params = DOMAIN InitialParams(variant)
  /\ \A m \in DOMAIN params : DOMAIN params[m] = DOMAIN InitialParams(variant)[m]

\* the stray input was edited and a frame has read the inputs since
C8_Witness ==
  /\ op = "animate"
  /\ currentAttractor \in DOMAIN inputs
  /\ inputs[currentAttractor][StrayKey] # NumberToString(0)

\* C9: after a type change to one of the six types the active type is that
\* type, the point is (0.1, 0, 0) and the live count is 0.
C9_ChangeThenReset ==
  (op = "change" /\ arg \in AttractorTypes) =>
    /\ currentAttractor = arg
    /\ AtStart
    /\ pointCount = 0

\* C10: a reset that follows a reset at once changes nothing: point, live
\* count, buffers, active type, coefficients and inputs are what the first
\* reset left.
C10_ResetIdempotent == [][(op = "reset" /\ op' = "reset") => UNCHANGED prog]_vars

\* two resets in a row, in a run that edited a slider
C10_Witness == resets = 2 /\ edits > 0

\* what the integrator returns in a frame that starts in the current state:
\* the next point, computed with the coefficients the frame reads from the UI
Refreshed ==
  IF variant = "part_001" THEN updateParameters(Cur) ELSE updateParametersFromUI(Cur)
StepResult == Val({<<u.x, u.y, u.z>> : u \in {computeNextPoint(Refreshed)}})
\* the slot an appended point occupies, given the live count before the frame
AppendSlot(n) == IF n < maxPoints THEN n ELSE maxPoints - 1

\* C11 as stated: every frame sets the point to the integrator's result,
\* appends exactly one point, and the newest live slot then holds exactly
\* that point; also when the point is infinite or NaN.
C11_StepAppendsExact ==
  [][op' = "animate" =>
       /\ <<x', y', z'>> = StepResult
       /\ pointCount' = Min(pointCount + 1, maxPoints)
       /\ pointCount' - 1 = AppendSlot(pointCount)
       /\ <<positions'[(pointCount' - 1) * 3], positions'[(pointCount' - 1) * 3 + 1],
            positions'[(pointCount' - 1) * 3 + 2]>> = <<x', y', z'>>]_vars

\* C11 amended: every frame sets the point to the integrator's result and
\* appends exactly one point, and the newest live slot (index pointCount - 1)
\* then holds the float32 value of that point; also when the point is
\* infinite or NaN.
C11_StepAppendsFloat32 ==
  [][op' = "animate" =>
       /\ <<x', y', z'>> = StepResult
       /\ pointCount' = Min(pointCount + 1, maxPoints)
       /\ pointCount' - 1 = AppendSlot(pointCount)
       /\ <<positions'[(pointCount' - 1) * 3], positions'[(pointCount' - 1) * 3 + 1],
            positions'[(pointCount' - 1) * 3 + 2]>> = F32Point(<<x', y', z'>>)]_vars

\* frames go on after the point has left the finite numbers
C11_Witness == op = "animate" /\ steps > 1 /\ ~IsFinite(x) /\ pointCount = steps

\* C12 as stated: counted from a fresh reset, after n frames with
\* 1 <= n <= maxPoints slot i holds exactly the result of frame i + 1, so
\* after maxPoints frames the buffer is full and slot 0 holds the first
\* frame's result, not the initial point.
C12_InitialNotAppendedExact ==
  (1 <= steps /\ steps <= maxPoints) =>
    /\ pointCount = steps
    /\ \A i \in 0..(steps - 1) : SlotPoint(i) = hist[i + 1]

\* C12 amended: the same with the float32 value of each frame's result.
C12_InitialNotAppended ==
  (1 <= steps /\ steps <= maxPoints) =>
    /\ pointCount = steps
    /\ \A i \in 0..(steps - 1) : SlotPoint(i) = F32Point(hist[i + 1])

\* exactly maxPoints frames after a reset click: the buffer is full and
\* slot 0 is not the initial point
C12_Witness ==
  /\ steps = maxPoints /\ pointCount = maxPoints
  /\ SlotPoint(0) = F32Point(hist[1])
  /\ SlotPoint(0) # F32Point(<<Lit(1, 10), 0, 0>>)
  /\ SlotPoint(0) # hist[1]

\* the colour in slot i of the colour buffer
SlotColor(arr, i) == <<arr[i * 3], arr[i * 3 + 1], arr[i * 3 + 2]>>
\* getColor(i) as the colour buffer stores it
StoredColor(i) ==
  Val({<<Fround(c.r), Fround(c.g), Fround(c.b)>> : c \in {getColor(i)}})

\* C13: the colour a frame gives the appended point is getColor of the slot
\* the point occupies: the live count before the frame while there is room,
\* the last slot once the buffer is full; nothing else (frames run, type,
\* point) enters it.
C13_ColorOfSlot ==
  [][(op' = "animate" /\ Coloured(variant)) =>
       SlotColor(colors', AppendSlot(pointCount)) = StoredColor(AppendSlot(pointCount))]_vars

\* a frame on a full buffer of a type other than lorenz
C13_Witness ==
  /\ op = "animate" /\ Coloured(variant)
  /\ steps > maxPoints /\ currentAttractor \in AttractorTypes \ {"lorenz"}
  /\ SlotColor(colors, maxPoints - 1) = StoredColor(maxPoints - 1)

\* the program state of stage v right after the page has loaded
Startup(v) ==
  [variant |-> v, x |-> Lit(1, 10), y |-> 0, z |-> 0, params |-> InitialParams(v),
   currentAttractor |-> "lorenz", pointCount |-> 0,
   positions |-> Float32Array(maxPoints * 3),
   colors |-> IF Coloured(v) THEN Float32Array(maxPoints * 3) ELSE Float32Array(0),
   drawRange |-> NoDrawRange, inputs |-> InitialInputs(v), shown |-> "lorenz",
   selected |-> "lorenz"]

\* a run of its own: a freshly loaded page of stage v is switched to type t
\* and runs n frames with the default coefficients
RECURSIVE FreshRun(_, _, _)
FreshRun(v, t, n) ==
  IF n = 0 THEN changeAttractor(Startup(v), t)
  ELSE Val({animate(r) : r \in {FreshRun(v, t, n - 1)}})

\* the coefficients of the active type are the defaults (true of a whole run
\* or of none of it after its first changed frame: no edit restores a default)
DefaultRun ==
  currentAttractor \in DOMAIN params =>
    params[currentAttractor] = InitialParams(variant)[currentAttractor]

C15_AtomicExact ==
  /\ pointCount > 0 => SlotPoint(pointCount - 1) = <<x, y, z>>
  /\ op \in {"reset", "change"} => pointCount = 0

\* C15 amended: the same with the newest live point being the float32 value
\* of the current point.
C15_AtomicFloat32 ==
  /\ pointCount \in 0..maxPoints
  /\ pointCount > 0 => SlotPoint(pointCount - 1) = F32Point(<<x, y, z>>)
  /\ op \in {"reset", "change"} => pointCount = 0

\* frames interleaved with a type change and a slider edit
C15_Witness ==
  /\ op = "animate" /\ pointCount \in 1..(maxPoints - 1)
  /\ currentAttractor \in AttractorTypes \ {"lorenz"}
  /\ edits > 0
  /\ SlotPoint(pointCount - 1) # <<x, y, z>>

\* the coefficients of the active type as the UI shows them now
Shown(k) == parseFloat(inputs[currentAttractor][k])
\* the current state with those coefficients in the active table
WithShown ==
  [Cur EXCEPT !.params[currentAttractor] =
     [k \in DOMAIN params[currentAttractor] |-> Shown(k)]]

\* C16: in every frame each coefficient of the active type takes the value
\* its input shows at the start of the frame, and the point the frame
\* computes is the integrator's result for those values: an edit made
\* before a frame is in effect in that frame.
C16_EditBeforeStep ==
  [][(op' = "animate" /\ currentAttractor \in DOMAIN params) =>
       /\ \A k \in DOMAIN params[currentAttractor] :
            params'[currentAttractor][k] = Shown(k)
       /\ \E u \in {computeNextPoint(WithShown)} :
            <<x', y', z'>> = <<u.x, u.y, u.z>>]_vars

\* a frame has run with an edited rho, and its point is not the one the
\* default coefficients give
C16_Witness ==
  /\ op = "animate" /\ currentAttractor = "lorenz"
  /\ params["lorenz"]["rho"] = Lit(5, 10)
  /\ inputs["lorenz"]["rho"] = NumberToString(Lit(5, 10))
  /\ \E r \in {FreshRun(variant, "lorenz", steps)} : <<x, y, z>> # <<r.x, r.y, r.z>>

\* |a - t| <= 1e-4, the target t given in tenths of 1/SCALE
Near(a, t) == Abs(a) <= SCALE /\ Abs(10 * a - t) <= 10 * Lit(1, 10000)

\* C17: a frame advances the point by one classical RK4 step with h = dt of
\* the active type, (k1 + 2*k2 + 2*k3 + k4)/6, never by a single Euler
\* step; the first Lorenz frame with the defaults from (0.1, 0, 0) gives
\* (0.091793, 0.026634, 0.0000126) within 1e-4.
C17_DefaultIsRK4 ==
  [][(op' = "animate" /\ currentAttractor \in DOMAIN params) =>
       /\ \E d \in {RK4(currentAttractor, x, y, z, params'[currentAttractor])} :
            <<x', y', z'>> = <<Add(x, d[1]), Add(y, d[2]), Add(z, d[3])>>
       /\ (/\ currentAttractor = "lorenz" /\ params'["lorenz"] = lorenzDefaults
           /\ AtStart)
          => /\ Near(x', 917930)
             /\ Near(y', 266340)
             /\ Near(z', 126)]_vars

\* the rate of change of spec section 4.1
SpecDerivative(t, a, b, c, p) ==
  CASE t = "lorenz"  -> <<Mul(p.sigma, Sub(b, a)),
                          Sub(Mul(a, Sub(p.rho, c)), b),
                          Sub(Mul(a, b), Mul(p.beta, c))>>
    [] t = "rossler" -> <<Sub(Neg(b), c),
                          Add(a, Mul(p.a, b)),
                          Add(p.b, Mul(c, Sub(a, p.c)))>>
    [] t = "chen"    -> <<Mul(p.a, Sub(b, a)),
                          Add(Sub(Mul(Sub(p.c, p.a), a), Mul(a, c)), Mul(p.c, b)),
                          Sub(Mul(a, b), Mul(p.b, c))>>
    [] t = "thomas"  -> <<Sub(Sin(b), Mul(p.b, a)),
                          Sub(Sin(c), Mul(p.b, b)),
                          Sub(Sin(a), Mul(p.b, c))>>
    [] t = "dadras"  -> <<Add(Sub(b, Mul(p.a, a)), Mul(Mul(p.b, b), c)),
                          Add(Sub(Mul(p.c, b), Mul(a, c)), c),
                          Sub(Mul(Mul(p.d, a), b), Mul(p.e, c))>>
    [] t = "aizawa"  -> <<Sub(Mul(Sub(c, p.b), a), Mul(p.d, b)),
                          Add(Mul(p.d, a), Mul(Sub(c, p.b), b)),
                          Add(Sub(Sub(Add(p.c, Mul(p.a, c)),
                                      DivInt(Mul(Mul(c, c), c), 3)),
                                  Mul(Add(Mul(a, a), Mul(b, b)),
                                      Add(Num(1), Mul(p.e, c)))),
                              Mul(Mul(Mul(Mul(p.f, c), a), a), a))>>

\* C18: for every type, point and coefficient table the <<dx, dy, dz>> the
\* code evaluates is the formula of the specification for that type (aizawa
\* without the factor k), not multiplied by dt, and evaluating it changes
\* neither the point nor the coefficients.
C18_RateIsSpecFormula ==
  [][op' = "rate" =>
       /\ hist'[1] = SpecDerivative(currentAttractor, x, y, z, params[currentAttractor])
       /\ UNCHANGED <<x, y, z, params>>]_vars

\* the default tables of spec section 6
DefaultTable ==
  [lorenz  |-> [sigma |-> Num(10), rho |-> Num(28), beta |-> Lit(2666, 1000),
                dt |-> Lit(1, 100)],
   aizawa  |-> [a |-> Lit(95, 100), b |-> Lit(7, 10), c |-> Lit(6, 10),
                d |-> Lit(35, 10), e |-> Lit(25, 100), f |-> Lit(1, 10),
                dt |-> Lit(1, 100)],
   rossler |-> [a |-> Lit(2, 10), b |-> Lit(2, 10), c |-> Lit(57, 10),
                dt |-> Lit(1, 100)],
   chen    |-> [a |-> Num(35), b |-> Num(3), c |-> Num(28), dt |-> Lit(1, 1000)],
   thomas  |-> [b |-> Lit(208186, 1000000), dt |-> Lit(5, 100)],
   dadras  |-> [a |-> Num(3), b |-> Lit(27, 10), c |-> Lit(17, 10), d |-> Num(2),
                e |-> Num(9), dt |-> Lit(1, 100)]]

\* C19: at startup, before any callback, the active type is lorenz, the
\* point is (0.1, 0, 0), the live count is 0 and every type the stage has
\* (all six where there is a selector) holds the default table of the
\* specification; and in every reachable state every table contains dt.
C19_InitialConfiguration ==
  /\ op = "init" =>
       /\ currentAttractor = "lorenz"
       /\ AtStart
       /\ pointCount = 0
       /\ variant # "part_001" => DOMAIN params = AttractorTypes
       /\ "lorenz" \in DOMAIN params
       /\ \A m \in DOMAIN params : params[m] = DefaultTable[m]
  /\ \A m \in DOMAIN params : "dt" \in DOMAIN params[m]

\* frames have run with an edited step size in the active table
C19_Witness ==
  /\ op = "animate" /\ steps > 1
  /\ params["lorenz"]["dt"] = PosInf

Channels == {"r", "g", "b"}
InUnit(c) == \A ch \in Channels : 0 <= c[ch] /\ c[ch] <= SCALE
\* 1e-5, ten units of the numbers' last place
ColorTol == Lit(1, 100000)

\* C20 as stated: getColor(i) equals getColor(i + maxPoints) for every index
\* i, and every channel lies in [0, 1].
C20_ColorPeriodicExact ==
  op = "getColor" =>
    /\ hist[1] = hist[2]
    /\ InUnit(hist[1]) /\ InUnit(hist[2])

\* C20 amended: getColor(i) and getColor(i + maxPoints) agree within 1e-5 on
\* every channel (they are sines of arguments one rounded 2*pi apart, equal
\* up to rounding), and every channel lies in [0, 1].
C20_ColorPeriodic ==
  op = "getColor" =>
    /\ \A ch \in Channels : Abs(hist[1][ch] - hist[2][ch]) <= ColorTol
    /\ InUnit(hist[1]) /\ InUnit(hist[2])

\* an index past the first cycle whose colour differs from the colour one
\* cycle on, and one with a channel at the top of the range
C20_Witness ==
  /\ op = "getColor" /\ arg >= maxPoints
  /\ hist[1] # hist[2]
  /\ \E ch \in Channels : hist[1][ch] > SCALE - Lit(1, 10)

\* getColor(i) itself, as a triple
ExactColor(i) == Val({<<c.r, c.g, c.b>> : c \in {getColor(i)}})
\* the slot in which the point now in live slot i was appended
AppendedAt(i) ==
  Min(i + (IF steps > maxPoints THEN steps - maxPoints ELSE 0), maxPoints - 1)

\* C21 as stated: a live point keeps the colour it was appended with while
\* the shift moves it down, so the colour in slot i is that of the slot the
\* point was appended in; after 2*maxPoints - 1 or more frames since the last
\* reset every live slot holds exactly getColor(maxPoints - 1).
C21_ColorTravelsExact ==
  Coloured(variant) =>
    /\ \A i \in 0..(pointCount - 1) :
         SlotColor(colors, i) = StoredColor(AppendedAt(i))
    /\ steps >= 2 * maxPoints - 1 =>
         \A i \in 0..(maxPoints - 1) : SlotColor(colors, i) = ExactColor(maxPoints - 1)

\* C21 amended: the same, every live slot then holding the float32 value of
\* getColor(maxPoints - 1).
C21_ColorTravels ==
  Coloured(variant) =>
    /\ \A i \in 0..(pointCount - 1) :
         SlotColor(colors, i) = StoredColor(AppendedAt(i))
    /\ steps >= 2 * maxPoints - 1 =>
         /\ pointCount = maxPoints
         /\ \A i \in 0..(maxPoints - 1) : SlotColor(colors, i) = StoredColor(maxPoints - 1)

\* 2*maxPoints - 1 frames have run: slot 0 has the last slot's colour, which
\* is neither its own nor the unrounded one
C21_Witness ==
  /\ Coloured(variant) /\ op = "animate" /\ steps >= 2 * maxPoints - 1
  /\ SlotColor(colors, 0) = StoredColor(maxPoints - 1)
  /\ SlotColor(colors, 0) # StoredColor(0)
  /\ SlotColor(colors, 0) # ExactColor(maxPoints - 1)

\* C22: the buffer never mixes trajectories.  The live points are the last
\* pointCount points computed since the most recent reset or type change,
\* never more than were computed since then; a frame computes its point
\* under the active type and leaves the type alone; and whenever the active
\* type changes the live count goes to 0 and the buffers are cleared, so no
\* point of an earlier type stays live.
C22_NoMixedTrajectories ==
  /\ [](/\ pointCount <= Len(hist)
        /\ \A i \in 0..(pointCount - 1) : SlotPoint(i) = F32Point(Recent(i))
        /\ op = "change" => pointCount = 0)
  /\ [][/\ op' = "animate" => currentAttractor' = currentAttractor
        /\ (currentAttractor' # currentAttractor \/ op' \in {"reset", "change"}) =>
             /\ pointCount' = 0
             /\ AllZero(positions') /\ AllZero(colors')]_vars

\* frames under a type selected after frames under lorenz had filled part
\* of the buffer (an edit took effect in them)
C22_Witness ==
  /\ op = "animate" /\ currentAttractor \in AttractorTypes \ {"lorenz"}
  /\ params["lorenz"] # lorenzDefaults
  /\ pointCount \in 1..maxPoints
  /\ pointCount = Len(hist)

\* C23: after every frame, reset and type change every position and colour
\* entry of a slot at or past the live count is 0, and the geometry's draw
\* range is (0, live count).
C23_StaleSlotsZero ==
  [][op' \in {"animate", "reset", "change"} =>
       /\ \A i \in DOMAIN positions' : i >= pointCount' * 3 => positions'[i] = 0
       /\ \A i \in DOMAIN colors' : i >= pointCount' * 3 => colors'[i] = 0
       /\ drawRange' = pointCount']_vars

\* a reset click after frames that had put points into the buffer (an edit
\* took effect in them)
C23_Witness ==
  /\ op = "reset" /\ params["lorenz"] # lorenzDefaults
  /\ pointCount = 0 /\ drawRange = 0
  /\ AllZero(positions) /\ AllZero(colors)
====
